---- MODULE Spec2Model ----
(***************************************************************************)
(* merge_shiftcodes.py: fetch the shift-code documents of four             *)
(* repositories, merge them into one collection keyed by `code`, sort it   *)
(* and write shiftcodes.json.                                              *)
(*                                                                         *)
(* Values are JSON values as Python holds them after response.json():      *)
(* None, numbers, strings, lists and dicts.  A string is the sequence of   *)
(* its character codes, so that Python's string order is computed and not  *)
(* assumed.                                                                *)
(***************************************************************************)
EXTENDS Integers, Sequences, FiniteSets, TLC

\* pc: the position of main; i: the index of the next URL; d, codes, j: the
\* loops of merge_codes; seen: the entries the inner loop has processed;
\* file: the documents written to shiftcodes.json; banner: the final message
\* printed; raised: the uncaught exception, if any.  The progress lines
\* printed along the way are not modelled.
VARIABLES pc, i, all_data, fetched, d, codes, j, merged_codes, seen,
          main_merged_codes, output, file, banner, raised

vars == <<pc, i, all_data, fetched, d, codes, j, merged_codes, seen,
          main_merged_codes, output, file, banner, raised>>

(***************************************************************************)
(* Python / JSON values                                                    *)
(***************************************************************************)
None == [t |-> "null"]

Str(s) == [t |-> "str", s |-> s]

Num(n) == [t |-> "num", n |-> n]

List(v) == [t |-> "list", v |-> v]

Dict(m) == [t |-> "dict", m |-> m]

\* bool(x)
Truthy(x) ==
    CASE x.t = "null" -> FALSE
      [] x.t = "str"  -> x.s # <<>>
      [] x.t = "num"  -> x.n # 0
      [] x.t = "list" -> x.v # <<>>
      [] x.t = "dict" -> DOMAIN x.m # {}

\* dict.get(k, default) on the mapping m of a dict
Get(m, k, default) == IF k \in DOMAIN m THEN m[k] ELSE default

\* s < t for two Python strings (lexicographic by code point; a proper prefix is smaller)
StrLess(s, t) ==
    \E k \in 1..Len(t) :
        /\ \A n \in 1..(k - 1) : n <= Len(s) /\ s[n] = t[n]
        /\ (k > Len(s) \/ s[k] < t[k])

\* x < y is defined (does not raise TypeError) for two values
Comparable(x, y) ==
    \/ x.t = "str" /\ y.t = "str"
    \/ x.t = "num" /\ y.t = "num"

\* x < y for two comparable values
PyLess(x, y) ==
    IF x.t = "str" /\ y.t = "str" THEN StrLess(x.s, y.s)
    ELSE IF x.t = "num" /\ y.t = "num" THEN x.n < y.n
    ELSE FALSE

(***************************************************************************)
(* The OrderedDict of merge_codes: a sequence of (key, value) items in     *)
(* first-insertion order; assigning to a present key keeps its position.   *)
(***************************************************************************)
Has(md, k) == \E p \in 1..Len(md) : md[p].key = k

Lookup(md, k) == md[CHOOSE p \in 1..Len(md) : md[p].key = k].value

\* mutant of Put: the item is always added at the end
Put_append(md, k, v) == Append(md, [key |-> k, value |-> v])

Put(md, k, v) ==
    IF Has(md, k)
    THEN [p \in 1..Len(md) |-> IF md[p].key = k THEN [key |-> k, value |-> v] ELSE md[p]]
    ELSE Append(md, [key |-> k, value |-> v])

Values(md) == [p \in 1..Len(md) |-> md[p].value]

(***************************************************************************)
(* merge_codes                                                             *)
(***************************************************************************)
Ok(v) == [raised |-> "", value |-> v]

Raise(msg) == [raised |-> msg, value |-> <<>>]

\* mutant of Normalize: the wrapped shape is not recognised
Normalize_flatOnly(data) ==
    IF ~Truthy(data) \/ data.t # "list" \/ Len(data.v) = 0
    THEN Ok(<<>>)
    ELSE Ok(data.v)

\* mutant of Normalize: only the wrapped shape is read
Normalize_wrappedOnly(data) ==
    IF ~Truthy(data) \/ data.t # "list" \/ Len(data.v) = 0
    THEN Ok(<<>>)
    ELSE IF data.v[1].t = "dict" /\ "codes" \in DOMAIN data.v[1].m
         THEN LET c == Get(data.v[1].m, "codes", List(<<>>))
              IN  IF c.t = "list" THEN Ok(c.v)
                  ELSE Raise("TypeError: object is not iterable")
         ELSE Ok(<<>>)

\* lines 36-45: the entry sequence the inner loop iterates for one document
Normalize(data) ==
    IF ~Truthy(data) \/ data.t # "list" \/ Len(data.v) = 0
    THEN Ok(<<>>)
    ELSE IF data.v[1].t = "dict" /\ "codes" \in DOMAIN data.v[1].m
         THEN LET c == Get(data.v[1].m, "codes", List(<<>>))
              IN  IF c.t = "list" THEN Ok(c.v)
                  ELSE Raise("TypeError: object is not iterable")
         ELSE Ok(data.v)

\* mutant of MergeEntry: `>=` for `>`, the last of equal candidates wins
MergeEntry_lastMax(md, code_entry) ==
    IF code_entry.t # "dict" THEN Ok(md)
    ELSE LET code == Get(code_entry.m, "code", None)
         IN  IF ~Truthy(code) THEN Ok(md)
             ELSE IF Has(md, code)
                  THEN LET existing_archived == Get(Lookup(md, code).m, "archived", Str(<<>>))
                           new_archived == Get(code_entry.m, "archived", Str(<<>>))
                       IN  IF ~Comparable(new_archived, existing_archived)
                           THEN Raise("TypeError: '>=' not supported")
                           ELSE IF ~PyLess(new_archived, existing_archived)
                                THEN Ok(Put(md, code, code_entry))
                                ELSE Ok(md)
                  ELSE Ok(Put(md, code, code_entry))

\* mutant of MergeEntry: the `if not code: continue` is missing
MergeEntry_noCodeCheck(md, code_entry) ==
    IF code_entry.t # "dict" THEN Ok(md)
    ELSE LET code == Get(code_entry.m, "code", None)
         IN  IF Has(md, code)
             THEN LET existing_archived == Get(Lookup(md, code).m, "archived", Str(<<>>))
                      new_archived == Get(code_entry.m, "archived", Str(<<>>))
                  IN  IF ~Comparable(new_archived, existing_archived)
                      THEN Raise("TypeError: '>' not supported")
                      ELSE IF PyLess(existing_archived, new_archived)
                           THEN Ok(Put(md, code, code_entry))
                           ELSE Ok(md)
             ELSE Ok(Put(md, code, code_entry))

\* lines 46-60: one iteration of the inner loop
MergeEntry(md, code_entry) ==
    IF code_entry.t # "dict" THEN Ok(md)
    ELSE LET code == Get(code_entry.m, "code", None)
         IN  IF ~Truthy(code) THEN Ok(md)
             ELSE IF Has(md, code)
                  THEN LET existing_archived == Get(Lookup(md, code).m, "archived", Str(<<>>))
                           new_archived == Get(code_entry.m, "archived", Str(<<>>))
                       IN  IF ~Comparable(new_archived, existing_archived)
                           THEN Raise("TypeError: '>' not supported")
                           ELSE IF PyLess(existing_archived, new_archived)
                                THEN Ok(Put(md, code, code_entry))
                                ELSE Ok(md)
                  ELSE Ok(Put(md, code, code_entry))

RECURSIVE MergeEntries(_, _, _)
\* the inner loop from entry n on
MergeEntries(md, cs, n) ==
    IF n > Len(cs) THEN Ok(md)
    ELSE LET r == MergeEntry(md, cs[n])
         IN  IF r.raised # "" THEN r ELSE MergeEntries(r.value, cs, n + 1)

RECURSIVE MergeData(_, _, _)
\* the outer loop from document n on
MergeData(md, all, n) ==
    IF n > Len(all) THEN Ok(md)
    ELSE LET c == Normalize(all[n])
         IN  IF c.raised # "" THEN c
             ELSE LET r == MergeEntries(md, c.value, 1)
                  IN  IF r.raised # "" THEN r ELSE MergeData(r.value, all, n + 1)

\* merge_codes(all_data): the list it returns, or the exception it raises
merge_codes(all) ==
    LET r == MergeData(<<>>, all, 1)
    IN  IF r.raised # "" THEN r ELSE Ok(Values(r.value))

(***************************************************************************)
(* The sort of main                                                        *)
(***************************************************************************)
\* key=lambda x: (x.get("game", ""), x.get("archived", ""))
SortKey(x) == <<Get(x.m, "game", Str(<<>>)), Get(x.m, "archived", Str(<<>>))>>

\* a < b for two key tuples: the first differing component decides
KeyLess(a, b) ==
    IF a[1] # b[1] THEN PyLess(a[1], b[1])
    ELSE IF a[2] # b[2] THEN PyLess(a[2], b[2])
    ELSE FALSE

\* comparing the two key tuples raises TypeError
KeyRaises(a, b) ==
    IF a[1] # b[1] THEN ~Comparable(a[1], b[1])
    ELSE IF a[2] # b[2] THEN ~Comparable(a[2], b[2])
    ELSE FALSE

\* list.sort raises TypeError.  Two keys raise when compared only if their
\* games are equal (every game here is a string or missing) and their
\* `archived` differ in type.  Keys of one game compare alike against every
\* key of another game, so no comparison sort can place two of them without
\* comparing two keys of that game whose `archived` differ in type: the sort
\* raises exactly when such a pair exists.
SortRaises(s) ==
    \E p, q \in 1..Len(s) : p # q /\ KeyRaises(SortKey(s[p]), SortKey(s[q]))

RECURSIVE SortedDesc_ascending(_)
\* mutant of SortedDesc: reverse=True is missing
SortedDesc_ascending(s) ==
    IF s = <<>> THEN <<>>
    ELSE LET n == Len(s)
             rest == SortedDesc_ascending(SubSeq(s, 1, n - 1))
             x == s[n]
             pos == Cardinality({p \in 1..Len(rest) : ~KeyLess(SortKey(x), SortKey(rest[p]))})
         IN  SubSeq(rest, 1, pos) \o <<x>> \o SubSeq(rest, pos + 1, Len(rest))

RECURSIVE SortedDesc(_)
\* list.sort(key=..., reverse=True): descending and stable
SortedDesc(s) ==
    IF s = <<>> THEN <<>>
    ELSE LET n == Len(s)
             rest == SortedDesc(SubSeq(s, 1, n - 1))
             x == s[n]
             \* x goes after every element that is not smaller than it
             pos == Cardinality({p \in 1..Len(rest) : ~KeyLess(SortKey(rest[p]), SortKey(x))})
         IN  SubSeq(rest, 1, pos) \o <<x>> \o SubSeq(rest, pos + 1, Len(rest))

(***************************************************************************)
(* Inputs: what the four URLs can answer                                   *)
(***************************************************************************)
\* line 12: the four sources, in listed order
REPOS == <<"Majawat", "ugoogalizer", "DankestMemeLord", "zarmstrong">>

\* the strings of the inputs, as character codes
sA == <<65>>
sB == <<66>>
sC == <<67>>
sG == <<71>>
sH == <<72>>
s1 == <<49>>
s10 == <<49, 48>>
s2 == <<50>>

\* the elements a fetched list can hold: elements that are no mapping or
\* carry no usable code, and entries of the codes A and B
Elements ==
    { Num(7),
      Dict([game |-> Str(sG)]),
      Dict([code |-> Str(<<>>), archived |-> Str(s2)]),
      Dict([code |-> Str(sA), archived |-> Str(s10), game |-> Str(sG)]),
      Dict([code |-> Str(sA), archived |-> Str(s2), game |-> Str(sH)]),
      Dict([code |-> Str(sA), archived |-> Str(s2)]),
      Dict([code |-> Str(sA), game |-> Str(sG)]),
      Dict([code |-> Str(sB), archived |-> Str(s10), game |-> Str(sG)]),
      Dict([code |-> Str(sB), archived |-> None, game |-> Str(sG)]),
      Dict([code |-> Str(sC), archived |-> Str(s2), game |-> Str(sG)]) }

\* bound: the number of JSON values (documents and their elements) that the
\* fetches of one run return in total
MaxFetched == 4

\* the number of values a fetched document counts for
Weight(data) ==
    IF ~Truthy(data) THEN 0
    ELSE IF data.t # "list" THEN 1
    ELSE IF data.v[1].t = "dict" /\ "codes" \in DOMAIN data.v[1].m
         THEN 1 + (IF data.v[1].m.codes.t = "list" THEN Len(data.v[1].m.codes.v) ELSE 0)
         ELSE 1 + Len(data.v)

RECURSIVE TotalWeight(_)
TotalWeight(all) == IF all = <<>> THEN 0 ELSE Weight(Head(all)) + TotalWeight(Tail(all))

\* the values fetch_json can return with at most `room` values in them:
\* None (line 28, or the body `null`), an empty list, an object, a wrapped
\* document [{codes: ...}] and a flat list of entries
Responses(room) ==
    {None, List(<<>>)}
    \cup (IF room < 1 THEN {}
          ELSE {Dict([message |-> Str(s1)]), List(<<Dict([codes |-> None])>>)}
               \cup UNION { { List(<<Dict([codes |-> List(es)])>>) : es \in [1..n -> Elements] }
                            : n \in 0..(room - 1) }
               \cup UNION { { List(es) : es \in [1..n -> Elements] } : n \in 1..(room - 1) })

\* the instants datetime.now can return
Clock == {Str(s1), Str(s2)}

(***************************************************************************)
(* main                                                                    *)
(***************************************************************************)
Init ==
    /\ pc = "fetch"
    /\ i = 1
    /\ all_data = <<>>
    /\ fetched = <<>>
    /\ d = 0
    /\ codes = <<>>
    /\ j = 1
    /\ merged_codes = <<>>
    /\ seen = <<>>
    /\ main_merged_codes = <<>>
    /\ output = None
    /\ file = <<>>
    /\ banner = ""
    /\ raised = ""

\* mutant of Fetch: a fetch that yields nothing ends the loop
Fetch_stopsOnFailure ==
    /\ pc = "fetch"
    /\ i <= Len(REPOS)
    /\ \E data \in Responses(MaxFetched - TotalWeight(all_data)) :
          IF Truthy(data)
          THEN /\ all_data' = Append(all_data, data)
               /\ fetched' = Append(fetched, [url |-> REPOS[i], data |-> data])
               /\ i' = i + 1
          ELSE /\ i' = Len(REPOS) + 1
               /\ UNCHANGED <<all_data, fetched>>
    /\ UNCHANGED <<pc, d, codes, j, merged_codes, seen, main_merged_codes,
                   output, file, banner, raised>>

\* lines 70-73: one iteration of the fetch loop; fetch_json returns data.
\* `fetched` is the history of the calls: the URL and what it returned, a
\* falsy answer recorded as None.
Fetch ==
    /\ pc = "fetch"
    /\ i <= Len(REPOS)
    /\ \E data \in Responses(MaxFetched - TotalWeight(all_data)) :
          /\ all_data' = IF Truthy(data) THEN Append(all_data, data) ELSE all_data
          /\ fetched' = Append(fetched, [url |-> REPOS[i],
                                         data |-> IF Truthy(data) THEN data ELSE None])
    /\ i' = i + 1
    /\ UNCHANGED <<pc, d, codes, j, merged_codes, seen, main_merged_codes,
                   output, file, banner, raised>>

\* mutant of NoData: the `if not all_data: return` is missing
NoData_proceeds ==
    /\ pc = "fetch"
    /\ i > Len(REPOS)
    /\ ~Truthy(List(all_data))
    /\ pc' = "merge"
    /\ UNCHANGED <<i, all_data, fetched, d, codes, j, merged_codes, seen,
                   main_merged_codes, output, file, banner, raised>>

\* lines 75-77: nothing was fetched
NoData ==
    /\ pc = "fetch"
    /\ i > Len(REPOS)
    /\ ~Truthy(List(all_data))
    /\ banner' = "Error: No data fetched from any repository!"
    /\ pc' = "returned"
    /\ UNCHANGED <<i, all_data, fetched, d, codes, j, merged_codes, seen,
                   main_merged_codes, output, file, raised>>

\* lines 75-82, 33: something was fetched, merge_codes is entered
StartMerge ==
    /\ pc = "fetch"
    /\ i > Len(REPOS)
    /\ Truthy(List(all_data))
    /\ merged_codes' = <<>>
    /\ d' = 0
    /\ pc' = "merge"
    /\ UNCHANGED <<i, all_data, fetched, codes, j, seen, main_merged_codes,
                   output, file, banner, raised>>

\* lines 35-45: the outer loop takes the next document and normalizes it
NextData ==
    /\ pc = "merge"
    /\ j > Len(codes)
    /\ d < Len(all_data)
    /\ d' = d + 1
    /\ LET c == Normalize(all_data[d + 1])
       IN  IF c.raised # ""
           THEN /\ raised' = c.raised
                /\ pc' = "crash"
                /\ UNCHANGED <<codes, j>>
           ELSE /\ codes' = c.value
                /\ j' = 1
                /\ UNCHANGED <<pc, raised>>
    /\ UNCHANGED <<i, all_data, fetched, merged_codes, seen, main_merged_codes,
                   output, file, banner>>

\* lines 45-60: the inner loop processes the next entry
NextEntry ==
    /\ pc = "merge"
    /\ j <= Len(codes)
    /\ j' = j + 1
    /\ seen' = Append(seen, codes[j])
    /\ LET r == MergeEntry(merged_codes, codes[j])
       IN  IF r.raised # ""
           THEN /\ raised' = r.raised
                /\ pc' = "crash"
                /\ UNCHANGED merged_codes
           ELSE /\ merged_codes' = r.value
                /\ UNCHANGED <<pc, raised>>
    /\ UNCHANGED <<i, all_data, fetched, d, codes, main_merged_codes,
                   output, file, banner>>

\* lines 62, 82-89: merge_codes returns the values and main sorts them
Sort ==
    /\ pc = "merge"
    /\ j > Len(codes)
    /\ d = Len(all_data)
    /\ IF SortRaises(Values(merged_codes))
       THEN /\ raised' = "TypeError: '<' not supported"
            /\ pc' = "crash"
            /\ main_merged_codes' = Values(merged_codes)
       ELSE /\ main_merged_codes' = SortedDesc(Values(merged_codes))
            /\ pc' = "build"
            /\ UNCHANGED raised
    /\ UNCHANGED <<i, all_data, fetched, d, codes, j, merged_codes, seen,
                   output, file, banner>>

\* lines 92-106: the output document (the three constant text fields of
\* meta are left out)
Build ==
    /\ pc = "build"
    /\ \E now \in Clock :
          output' = List(<<Dict([meta |-> Dict([generated |-> Dict([human |-> now]),
                                                newcodecount |-> Num(Len(main_merged_codes))]),
                                 codes |-> List(main_merged_codes)])>>)
    /\ pc' = "write"
    /\ UNCHANGED <<i, all_data, fetched, d, codes, j, merged_codes, seen,
                   main_merged_codes, file, banner, raised>>

\* lines 109-115: the file is written and success is reported
Write ==
    /\ pc = "write"
    /\ file' = <<output>>
    /\ banner' = "[SUCCESS]"
    /\ pc' = "done"
    /\ UNCHANGED <<i, all_data, fetched, d, codes, j, merged_codes, seen,
                   main_merged_codes, output, raised>>

Next ==
    \/ Fetch
    \/ NoData
    \/ StartMerge
    \/ NextData
    \/ NextEntry
    \/ Sort
    \/ Build
    \/ Write

Spec == Init /\ [][Next]_vars

(***************************************************************************)
(* Properties                                                              *)
(***************************************************************************)
\* the run has produced its sorted list
Sorted == pc \in {"build", "write", "done"}

\* the `codes` of the written file
FileCodes == file[1].v[1].m.codes.v

\* x is a mapping with a truthy code
HasCode(x) == x.t = "dict" /\ "code" \in DOMAIN x.m /\ Truthy(x.m.code)

\* the `archived` of an entry, a missing one taken as the empty string
ArchivedOf(x) == IF "archived" \in DOMAIN x.m THEN x.m.archived ELSE Str(<<>>)

\* the `game` of an entry, a missing one taken as the empty string
GameOf(x) == IF "game" \in DOMAIN x.m THEN x.m.game ELSE Str(<<>>)

\* the candidates of code k, in processing order
Candidates(k) == SelectSeq(seen, LAMBDA x : HasCode(x) /\ x.m.code = k)

\* a is strictly below b in string order
Below(a, b) == a.t = "str" /\ b.t = "str" /\ StrLess(a.s, b.s)

\* c[n] is the first candidate whose archived no candidate exceeds
FirstMax(c, n) ==
    /\ \A m \in 1..Len(c) : ~Below(ArchivedOf(c[n]), ArchivedOf(c[m]))
    /\ \A m \in 1..(n - 1) : Below(ArchivedOf(c[m]), ArchivedOf(c[n]))

\* x is, as a whole record, the first-processed candidate of maximal archived
KeptRight(x) ==
    /\ HasCode(x)
    /\ LET c == Candidates(x.m.code)
       IN  \E n \in 1..Len(c) : FirstMax(c, n) /\ x = c[n]

\* C1: while the merge runs and in the result, the entry kept for a code is,
\* as a whole record, the first-processed candidate whose archived (missing =
\* empty string) is the lexical maximum of the candidates of that code
C1_KeptIsFirstMax ==
    /\ (raised = "" =>
            \A p \in 1..Len(merged_codes) :
                /\ KeptRight(merged_codes[p].value)
                /\ merged_codes[p].value.m.code = merged_codes[p].key)
    /\ (Sorted => \A p \in 1..Len(main_merged_codes) : KeptRight(main_merged_codes[p]))
    /\ (pc = "done" => \A p \in 1..Len(FileCodes) : KeptRight(FileCodes[p]))

\* C1 witness: a finished run in which a code had three candidates, two of
\* them different records sharing the maximal archived, and the first
\* candidate lost
C1_Witness ==
    /\ pc = "done"
    /\ \E p \in 1..Len(FileCodes) :
          LET c == Candidates(FileCodes[p].m.code)
          IN  /\ Len(c) = 3
              /\ FileCodes[p] # c[1]
              /\ \E m, n \in 1..3 :
                    /\ m < n
                    /\ c[m] # c[n]
                    /\ ArchivedOf(c[m]) = ArchivedOf(c[n])
                    /\ FileCodes[p] = c[m]

\* no two elements of s carry the same code
UniqueCodes(s) ==
    \A p, q \in 1..Len(s) : p # q => Get(s[p].m, "code", None) # Get(s[q].m, "code", None)

\* C2: after every step of the merge and in the result, no two entries of the
\* merged collection have the same code
C2_UniqueCodes ==
    /\ \A p, q \in 1..Len(merged_codes) : p # q => merged_codes[p].key # merged_codes[q].key
    /\ UniqueCodes(Values(merged_codes))
    /\ UniqueCodes(main_merged_codes)
    /\ (pc = "done" => UniqueCodes(FileCodes))

\* C2 witness: a finished run that processed more coded entries than it kept
\* and kept two
C2_Witness ==
    /\ pc = "done"
    /\ Len(FileCodes) = 2
    /\ Len(SelectSeq(seen, HasCode)) > 2

\* C3: an element that is no mapping, or a mapping without a truthy code, is
\* never in the merged collection, the sorted list or the written file
C3_NoCodelessEntry ==
    /\ \A p \in 1..Len(merged_codes) : HasCode(merged_codes[p].value)
    /\ \A p \in 1..Len(main_merged_codes) : HasCode(main_merged_codes[p])
    /\ (pc = "done" => \A p \in 1..Len(FileCodes) : HasCode(FileCodes[p]))

\* the document is of the wrapped shape [{codes: [...]}]
IsWrapped(data) ==
    data.t = "list" /\ data.v # <<>> /\ data.v[1].t = "dict" /\ "codes" \in DOMAIN data.v[1].m

\* C3 witness: a finished run that processed a non-mapping from a document of
\* one shape and a mapping without a truthy code from one of the other shape
C3_Witness ==
    /\ pc = "done"
    /\ \E p, q \in 1..Len(seen) : seen[p].t # "dict" /\ seen[q].t = "dict" /\ ~HasCode(seen[q])
    /\ \E p, q \in 1..Len(all_data) :
          /\ IsWrapped(all_data[p]) /\ all_data[p].v[1].m.codes.t = "list"
          /\ all_data[p].v[1].m.codes.v # <<>>
          /\ all_data[q].t = "list" /\ ~IsWrapped(all_data[q])

\* (a.game, a.archived) >= (b.game, b.archived), missing fields empty
TupleGE(a, b) ==
    \/ Below(GameOf(b), GameOf(a))
    \/ GameOf(a) = GameOf(b) /\ Below(ArchivedOf(b), ArchivedOf(a))
    \/ GameOf(a) = GameOf(b) /\ ArchivedOf(a) = ArchivedOf(b)

\* the position of x in s
IndexOf(s, x) == CHOOSE p \in 1..Len(s) : s[p] = x

\* s is `before` reordered: descending in (game, archived), entries of equal
\* key in the order they have in `before`
SortedStably(s, before) ==
    /\ Len(s) = Len(before)
    /\ \A p \in 1..Len(before) : \E q \in 1..Len(s) : s[q] = before[p]
    /\ \A p \in 1..(Len(s) - 1) : TupleGE(s[p], s[p + 1])
    /\ \A p, q \in 1..Len(s) :
          (p < q /\ TupleGE(s[p], s[q]) /\ TupleGE(s[q], s[p]))
              => IndexOf(before, s[p]) < IndexOf(before, s[q])

\* C4: the codes of the output are the merged collection in descending
\* (game, archived) order, missing fields empty, entries of identical key in
\* first-insertion order
C4_SortedDescStable ==
    /\ (Sorted => SortedStably(main_merged_codes, Values(merged_codes)))
    /\ (pc = "done" => SortedStably(FileCodes, Values(merged_codes)))

\* C4 witness: a written file of three entries, two of them of identical key,
\* whose order differs from the insertion order
C4_Witness ==
    /\ pc = "done"
    /\ Len(FileCodes) = 3
    /\ FileCodes # Values(merged_codes)
    /\ \E p \in 1..2 : TupleGE(FileCodes[p + 1], FileCodes[p])

\* C5: when no source yielded data, the run reports the error and stops:
\* no merge, no sort, no output document, no file
C5_NoDataNoFile ==
    /\ (pc # "fetch" /\ all_data = <<>>) =>
            /\ pc = "returned"
            /\ banner = "Error: No data fetched from any repository!"
            /\ file = <<>>
            /\ output = None
            /\ d = 0 /\ seen = <<>> /\ merged_codes = <<>> /\ main_merged_codes = <<>>
            /\ ~ENABLED Next
    /\ pc = "returned" => all_data = <<>>

\* C5 witness: the run ended with the error after all four fetches
C5_Witness == pc = "returned" /\ Len(fetched) = Len(REPOS) /\ file = <<>>

\* the run has ended
Ended == pc \in {"returned", "done", "crash"}

\* C6: a run in which at least one source yielded data ends with the file
\* written and success reported
C6_AlwaysWrites ==
    (Ended /\ all_data # <<>>) =>
        /\ pc = "done"
        /\ file = <<output>>
        /\ banner = "[SUCCESS]"

\* C7: merging the written document as the only source gives the codes of
\* that document, entry for entry
C7_RoundTrip ==
    pc = "done" => merge_codes(<<file[1]>>) = Ok(FileCodes)

\* C7 witness: a written file of three entries that the sort reordered
C7_Witness ==
    /\ pc = "done"
    /\ Len(FileCodes) = 3
    /\ FileCodes # Values(merged_codes)
    /\ Len(seen) = 3

\* the entry sequence the specification gives for a document
Normalized(data) ==
    IF ~Truthy(data) \/ data.t # "list" THEN <<>>
    ELSE IF IsWrapped(data)
         THEN (IF data.v[1].m.codes.t = "null" THEN <<>> ELSE data.v[1].m.codes.v)
         ELSE data.v

\* C8: normalizing a document never fails and yields: nothing for a falsy or
\* non-list document, the value of `codes` for a wrapped one (nothing when
\* that value is null), the document itself otherwise
C8_NormalizeTotal ==
    d >= 1 =>
        /\ raised # "TypeError: object is not iterable"
        /\ codes = Normalized(all_data[d])

\* the documents that were fetched, in fetch order
Successful == SelectSeq(fetched, LAMBDA f : Truthy(f.data))

\* C9: the sources are fetched once each, in listed order; a fetch that
\* fails does not keep the next one from running, and the documents handed
\* to the merge are the fetched ones in that order
C9_FetchEachOnceInOrder ==
    /\ Len(fetched) = i - 1
    /\ \A k \in 1..Len(fetched) : fetched[k].url = REPOS[k]
    /\ (pc # "fetch" => Len(fetched) = Len(REPOS))
    /\ (pc = "fetch" /\ i <= Len(REPOS) => ENABLED Fetch)
    /\ Len(all_data) = Len(Successful)
    /\ \A k \in 1..Len(all_data) : all_data[k] = Successful[k].data

\* C9 witness: the merge was handed two documents, fetched after a failed
\* fetch and around another one
C9_Witness ==
    /\ pc = "merge"
    /\ Len(all_data) = 2
    /\ ~Truthy(fetched[1].data)
    /\ Truthy(fetched[2].data)
    /\ ~Truthy(fetched[3].data)
    /\ Truthy(fetched[4].data)

\* the codes carried by the elements of s
CodeSet(s) == {s[p].m.code : p \in {q \in 1..Len(s) : HasCode(s[q])}}

\* the truthy codes of the mapping entries of all documents handed to the merge
SourceCodes == UNION {CodeSet(Normalized(all_data[k])) : k \in 1..Len(all_data)}

\* the documents in the opposite order
Reversed(s) == [p \in 1..Len(s) |-> s[Len(s) + 1 - p]]

\* C10: the codes of the output are exactly the truthy codes of the mapping
\* entries of the documents handed to the merge, whatever the order of the
\* documents
C10_CodesComplete ==
    /\ (Sorted => CodeSet(main_merged_codes) = SourceCodes)
    /\ (pc = "done" =>
            /\ CodeSet(FileCodes) = SourceCodes
            /\ Len(FileCodes) = Cardinality(SourceCodes)
            /\ LET r == merge_codes(Reversed(all_data))
               IN  r.raised = "" => CodeSet(r.value) = CodeSet(FileCodes))

\* C10 witness: two documents carrying different entries of one code gave a
\* file of that one code
C10_Witness ==
    /\ pc = "done"
    /\ Len(all_data) = 2
    /\ Len(FileCodes) = 1
    /\ Normalized(all_data[1]) # Normalized(all_data[2])
    /\ CodeSet(Normalized(all_data[1])) = CodeSet(FileCodes)
    /\ CodeSet(Normalized(all_data[2])) = CodeSet(FileCodes)

====
